---- MODULE Spec2Model ----
EXTENDS Integers, Sequences, FiniteSets, TLC

(***************************************************************************)
(* Stopping power of protons in water (Bethe-Bloch), as computed by the    *)
(* driver src/main.rs and by the modules aux/bethe_bloch/bb.rs and         *)
(* aux/plotting/plot.rs.                                                   *)
(*                                                                         *)
(* f64 arithmetic.  A value is m * 10^e with a four-digit mantissa         *)
(* (1000 <= |m| <= 9999, or m = 0), rounded to nearest after every         *)
(* operation, plus NaN and the two infinities.  Every f64 expression of    *)
(* the source is translated operation by operation, in the source's order  *)
(* of evaluation.                                                          *)
(***************************************************************************)
F(m, e) == [m |-> m, e |-> e]
Special == 100000
NaN == F(0, Special)
PosInf == F(1, Special)
NegInf == F(-1, Special)
Zero == F(0, 0)
IsNaN(a) == a.e = Special /\ a.m = 0
IsInf(a) == a.e = Special /\ a.m # 0
IsFinite(a) == a.e # Special
Sign(a) == IF a.m > 0 THEN 1 ELSE IF a.m < 0 THEN -1 ELSE 0
Abs(n) == IF n < 0 THEN -n ELSE n

Pow10(n) == <<1, 10, 100, 1000, 10000, 100000, 1000000, 10000000, 100000000, 1000000000>>[n + 1]

\* how many low digits a positive integer has beyond four
DropDigits(n) ==
    IF n < 10000 THEN 0 ELSE IF n < 100000 THEN 1 ELSE IF n < 1000000 THEN 2
    ELSE IF n < 10000000 THEN 3 ELSE IF n < 100000000 THEN 4
    ELSE IF n < 1000000000 THEN 5 ELSE 6

\* a positive integer below 1000 brought up to four digits
Widen(n, e) ==
    IF n >= 1000 THEN F(n, e) ELSE IF n >= 100 THEN F(n * 10, e - 1)
    ELSE IF n >= 10 THEN F(n * 100, e - 2) ELSE F(n * 1000, e - 3)

Carry(q, e) == IF q >= 10000 THEN F(q \div 10, e + 1) ELSE F(q, e)
RoundDrop(n, e, d) == Carry((n + (Pow10(d) \div 2)) \div Pow10(d), e + d)
RoundPos(n, e) == IF n < 10000 THEN Widen(n, e) ELSE RoundDrop(n, e, DropDigits(n))
WithSign(sign, r) == F(sign * r.m, r.e)

\* n * 10^e rounded to the nearest four-digit mantissa
Round(n, e) ==
    IF n = 0 THEN Zero ELSE WithSign(IF n < 0 THEN -1 ELSE 1, RoundPos(Abs(n), e))

FromInt(n) == Round(n, 0)
Neg(a) == F(-a.m, a.e)

AddOrdered(hi, lo) ==
    IF lo.m = 0 THEN hi
    ELSE IF hi.m = 0 THEN lo
    ELSE IF hi.e - lo.e > 5 THEN hi
    ELSE Round(hi.m * Pow10(hi.e - lo.e) + lo.m, lo.e)

AddFinite(a, b) ==
    AddOrdered(IF a.e >= b.e THEN a ELSE b, IF a.e >= b.e THEN b ELSE a)

Add(a, b) ==
    IF IsNaN(a) \/ IsNaN(b) THEN NaN
    ELSE IF IsInf(a) THEN (IF IsInf(b) /\ b.m # a.m THEN NaN ELSE a)
    ELSE IF IsInf(b) THEN b
    ELSE AddFinite(a, b)

Sub(a, b) == Add(a, Neg(b))

Mul(a, b) ==
    IF IsNaN(a) \/ IsNaN(b) THEN NaN
    ELSE IF IsInf(a) \/ IsInf(b)
         THEN (IF a.m = 0 \/ b.m = 0 THEN NaN ELSE F(Sign(a) * Sign(b), Special))
    ELSE Round(a.m * b.m, a.e + b.e)

Div(a, b) ==
    IF IsNaN(a) \/ IsNaN(b) THEN NaN
    ELSE IF IsInf(a) THEN (IF IsInf(b) THEN NaN
                           ELSE F(Sign(a) * (IF b.m < 0 THEN -1 ELSE 1), Special))
    ELSE IF IsInf(b) THEN Zero
    ELSE IF b.m = 0 THEN (IF a.m = 0 THEN NaN ELSE F(Sign(a), Special))
    ELSE Round(Sign(a) * Sign(b) * ((Abs(a.m) * 100000) \div Abs(b.m)), a.e - b.e - 5)

Lt(a, b) ==
    IF IsNaN(a) \/ IsNaN(b) THEN FALSE
    ELSE IF IsInf(a) THEN a.m < 0 /\ a # b
    ELSE IF IsInf(b) THEN b.m > 0
    ELSE Sub(a, b).m < 0
Le(a, b) == ~IsNaN(a) /\ ~IsNaN(b) /\ (a = b \/ Lt(a, b))
Gt(a, b) == Lt(b, a)
Ge(a, b) == Le(b, a)

RECURSIVE ISqrtIn(_, _, _)
ISqrtIn(n, lo, hi) ==
    IF lo >= hi THEN lo
    ELSE LET mid == (lo + hi + 1) \div 2
         IN  IF mid * mid <= n THEN ISqrtIn(n, mid, hi) ELSE ISqrtIn(n, lo, mid - 1)

Sqrt(a) ==
    IF IsNaN(a) \/ a.m < 0 THEN NaN
    ELSE IF IsInf(a) \/ a.m = 0 THEN a
    ELSE IF a.e % 2 = 0
    THEN Round(ISqrtIn(a.m * 10000, 1, 31623), (a.e - 4) \div 2)
    ELSE Round(ISqrtIn(a.m * 100000, 1, 31623), (a.e - 5) \div 2)

Ln10 == F(2303, -3)
One == F(1000, -3)
Two == F(2000, -3)

\* 1 + z2/3 + z2^2/5 + ... + z2^5/11, by Horner's rule
AtanhSeries(z2) ==
    LET c(n) == Div(One, FromInt(n))
        h5 == c(11)
        h4 == Add(c(9), Mul(z2, h5))
        h3 == Add(c(7), Mul(z2, h4))
        h2 == Add(c(5), Mul(z2, h3))
        h1 == Add(c(3), Mul(z2, h2))
    IN  Add(One, Mul(z2, h1))

\* ln f = 2 atanh z for z = (f - 1)/(f + 1)
LnOfZ(z) == Mul(Two, Mul(z, AtanhSeries(Mul(z, z))))
LnNearOne(f) == LnOfZ(Div(Sub(f, One), Add(f, One)))

\* ln(f * 10^k) = ln f + k ln 10, with f in [0.3163, 3.163)
Ln(a) ==
    IF IsNaN(a) \/ a.m < 0 THEN NaN
    ELSE IF IsInf(a) THEN PosInf
    ELSE IF a.m = 0 THEN NegInf
    ELSE IF a.m >= 3163
    THEN Add(LnNearOne(F(a.m, -4)), Mul(FromInt(a.e + 4), Ln10))
    ELSE Add(LnNearOne(F(a.m, -3)), Mul(FromInt(a.e + 3), Ln10))

Log10(a) == Div(Ln(a), Ln10)


RECURSIVE PowiPos(_, _)
PowiPos(a, n) == IF n = 0 THEN One ELSE Mul(PowiPos(a, n - 1), a)

Powi(a, n) == IF n >= 0 THEN PowiPos(a, n) ELSE Div(One, PowiPos(a, -n))

\* the integer nearest to a finite value of small magnitude
ToInt(a) ==
    IF a.m = 0 \/ a.e < -4 THEN 0
    ELSE IF a.e >= 0 THEN a.m * Pow10(a.e)
    ELSE Sign(a) * ((Abs(a.m) + (Pow10(-a.e) \div 2)) \div Pow10(-a.e))

\* 1 + r + r^2/2! + ... + r^10/10!, by Horner's rule
ExpSeries(r) ==
    LET RECURSIVE h(_)
        h(n) == IF n > 10 THEN One
                ELSE Add(One, Mul(Div(r, FromInt(n)), h(n + 1)))
    IN  h(1)

Scale10(s, n) == F(s.m, s.e + n)
ExpSplit(w, n) == Scale10(ExpSeries(Sub(w, Mul(FromInt(n), Ln10))), n)

\* e^w = e^r * 10^n for w = n ln 10 + r
Exp(w) ==
    IF IsNaN(w) THEN NaN
    ELSE IF IsInf(w) THEN (IF w.m > 0 THEN PosInf ELSE Zero)
    ELSE ExpSplit(w, ToInt(Div(w, Ln10)))

IsWhole(a) == IsFinite(a) /\ (a.m = 0 \/ a.e >= 0 \/ (a.e >= -3 /\ a.m % Pow10(-a.e) = 0))

Powf(b, p) ==
    IF p.m = 0 /\ IsFinite(p) THEN One
    ELSE IF b = One THEN One
    ELSE IF IsNaN(b) \/ IsNaN(p) THEN NaN
    ELSE IF IsFinite(b) /\ b.m = 0
         THEN (IF p.m > 0 THEN Zero ELSE PosInf)
    ELSE IF b.m < 0
         THEN (IF IsWhole(p) /\ Abs(ToInt(p)) < 8 THEN Powi(b, ToInt(p)) ELSE NaN)
    ELSE Exp(Mul(p, Ln(b)))


(***************************************************************************)
(* Physical constants, bb.rs:8-17 (main.rs:15-24 repeats them), to four    *)
(* significant digits.                                                     *)
(***************************************************************************)
ELECTRON_CHARGE == F(1602, -22)
ELECTRON_MASS_0 == F(9109, -34)
SPEED_OF_LIGHT == F(2998, 5)
WATER_ATOMIC_NUMBER == F(9000, -3)
PROTON_ENERGY_MeV_I == F(1000, -3)
PROTON_MASS_0 == F(1673, -30)
WATER_EXCITATION_ENERGY == F(7460, -2)
ELECTRON_PER_VOLUME_H20 == F(3343, -3)
COULOMB_CONST == F(8990, 6)
Z_PROTON == F(1000, -3)
PI == F(3142, -3)

\* Derived constants
proton_mass == Div(Mul(Mul(PROTON_MASS_0, SPEED_OF_LIGHT), SPEED_OF_LIGHT), ELECTRON_CHARGE)
electron_mass == Mul(Mul(ELECTRON_MASS_0, SPEED_OF_LIGHT), SPEED_OF_LIGHT)
electron_mass_eV == Div(Mul(Mul(ELECTRON_MASS_0, SPEED_OF_LIGHT), SPEED_OF_LIGHT), ELECTRON_CHARGE)

\* General constant for the Bethe-Bloch calculation
const_general ==
    Div(Mul(Mul(Mul(FromInt(4), PI), Powi(ELECTRON_CHARGE, 4)), Powi(COULOMB_CONST, 2)),
        Mul(Mul(electron_mass, ELECTRON_CHARGE), F(1000, 5)))

\* Ionization constant I, piecewise in the atomic number
IonizationConstant(Z) ==
    IF Lt(Z, FromInt(13))
    THEN Div(Add(Mul(FromInt(12), Z), FromInt(7)), F(1000, 3))
    ELSE Div(Add(Mul(F(9760, -3), Z_PROTON), Mul(F(5880, -2), Powf(Z, F(-1900, -4)))), F(1000, 3))

\* a grid that starts at 0 MeV: (i as f64) * 10.0
energy_eV_from_zero(i) ==
    Mul(Mul(PROTON_ENERGY_MeV_I, Mul(FromInt(i), FromInt(10))), F(1000, 3))
\* proton energy in eV of sample i
energy_eV_of(i) ==
    Mul(Mul(PROTON_ENERGY_MeV_I, Mul(Add(FromInt(i), One), FromInt(10))), F(1000, 3))

\* beta = sqrt(E*(E + 2*m)) / (E + m)
beta_of(energy_eV) ==
    Div(Sqrt(Mul(energy_eV, Add(energy_eV, Mul(Two, proton_mass)))),
        Add(energy_eV, proton_mass))

bg_of(beta) == Mul(beta, Div(One, Sqrt(Sub(One, Mul(beta, beta)))))

\* shell correction
sc_of(bg, I) ==
    Add(Mul(Mul(Sub(Add(Mul(F(4224, -4), Powi(bg, -2)), Mul(F(3040, -5), Powi(bg, -4))),
                    Mul(F(3811, -7), Powi(bg, -6))),
                Powi(FromInt(10), -6)),
            Mul(Powi(I, 2), Powi(FromInt(10), -6))),
        Mul(Mul(Add(Sub(Mul(F(3850, -3), Powi(bg, -2)), Mul(F(1668, -4), Powi(bg, -4))),
                    Mul(F(1580, -6), Powi(bg, -6))),
                Powi(FromInt(10), -9)),
            Mul(Powi(I, 3), Powi(FromInt(10), -6))))

\* bb.rs:99 and 210, the branch x >= x1
bb_delta_top(x, c_param) == Add(Mul(Mul(Two, Log10(FromInt(10))), x), c_param)

\* the extra term over the sum: a * (x1 + x)^m_param
bb_delta_middle_sum(x, a, x1, c_param, m_param) ==
    Add(Add(Mul(Mul(Two, Log10(FromInt(10))), x), c_param), Mul(a, Powf(Add(x1, x), m_param)))
\* bb.rs:101 and 212, the branch x0 <= x
bb_delta_middle(x, a, x1, c_param, m_param) ==
    Add(Add(Mul(Mul(Two, Log10(FromInt(10))), x), c_param), Mul(a, Powf(Sub(x1, x), m_param)))

\* main.rs:138 and 220
main_delta_top(x, c_param) == Sub(Mul(Mul(Two, Log10(FromInt(10))), x), c_param)

\* main.rs:140 and 222
main_delta_middle(x, a, x1, c_param, m_param) ==
    Add(Sub(Mul(Mul(Two, Log10(FromInt(10))), x), c_param), Mul(a, Powf(Sub(x1, x), m_param)))

\* the lower threshold tested first
bb_delta_x0_first(x, a, x0, x1, c_param, m_param) ==
    IF Le(x0, x)
    THEN Add(Add(Mul(Mul(Two, Log10(FromInt(10))), x), c_param),
             Mul(a, Powf(Sub(x1, x), m_param)))
    ELSE IF Ge(x, x1)
    THEN Add(Mul(Mul(Two, Log10(FromInt(10))), x), c_param)
    ELSE Zero
\* density correction of bb.rs: c_param is added
bb_delta(x, a, x0, x1, c_param, m_param) ==
    IF Ge(x, x1)
    THEN Add(Mul(Mul(Two, Log10(FromInt(10))), x), c_param)
    ELSE IF Le(x0, x)
    THEN Add(Add(Mul(Mul(Two, Log10(FromInt(10))), x), c_param),
             Mul(a, Powf(Sub(x1, x), m_param)))
    ELSE Zero

\* density correction of main.rs: c_param is subtracted
main_delta(x, a, x0, x1, c_param, m_param) ==
    IF Ge(x, x1)
    THEN Sub(Mul(Mul(Two, Log10(FromInt(10))), x), c_param)
    ELSE IF Le(x0, x)
    THEN Add(Sub(Mul(Mul(Two, Log10(FromInt(10))), x), c_param),
             Mul(a, Powf(Sub(x1, x), m_param)))
    ELSE Zero

(***************************************************************************)
(* The stopping power dE/dx of each variant: a prefactor times a bracket,  *)
(* one expression per sweep, each translated from its own lines of bb.rs.  *)
(* main.rs holds the same four expressions (lines 100-103, 145-147,        *)
(* 183-185, 231-233).                                                      *)
(***************************************************************************)
prefactor_no_corrections(beta) ==
    Div(Mul(Mul(const_general, Powi(Z_PROTON, 2)), ELECTRON_PER_VOLUME_H20), Mul(beta, beta))

bracket_no_corrections(beta) ==
    Sub(Sub(Ln(Div(Mul(Mul(Mul(Two, electron_mass_eV), beta), beta), WATER_EXCITATION_ENERGY)),
            Ln(Sub(One, Mul(beta, beta)))),
        Mul(beta, beta))

de_dx_no_corrections(beta) ==
    Mul(prefactor_no_corrections(beta), bracket_no_corrections(beta))

prefactor_density_corrections(beta) ==
    Div(Mul(Mul(const_general, Powi(Z_PROTON, 2)), ELECTRON_PER_VOLUME_H20), Powi(beta, 2))

bracket_density_corrections(beta, delta) ==
    Sub(Sub(Sub(Ln(Div(Mul(Mul(Two, electron_mass_eV), Powi(beta, 2)), WATER_EXCITATION_ENERGY)),
                Ln(Sub(One, Powi(beta, 2)))),
            Powi(beta, 2)),
        delta)

de_dx_density_corrections(beta, delta) ==
    Mul(prefactor_density_corrections(beta), bracket_density_corrections(beta, delta))

prefactor_layer_corrections(beta) ==
    Div(Mul(Mul(const_general, Powi(Z_PROTON, 2)), ELECTRON_PER_VOLUME_H20), Powi(beta, 2))

bracket_layer_corrections(beta, sc) ==
    Sub(Sub(Sub(Ln(Div(Mul(Mul(Two, electron_mass_eV), Powi(beta, 2)), WATER_EXCITATION_ENERGY)),
                Ln(Sub(One, Powi(beta, 2)))),
            Powi(beta, 2)),
        Mul(Two, Div(sc, WATER_ATOMIC_NUMBER)))

de_dx_layer_corrections(beta, sc) ==
    Mul(prefactor_layer_corrections(beta), bracket_layer_corrections(beta, sc))

prefactor_all_corrections(beta) ==
    Div(Mul(Mul(const_general, Powi(Z_PROTON, 2)), ELECTRON_PER_VOLUME_H20), Powi(beta, 2))

\* the density term entering the bracket with the opposite sign
bracket_all_corrections_added(beta, delta, sc) ==
    Sub(Add(Sub(Sub(Ln(Div(Mul(Mul(Two, electron_mass_eV), Powi(beta, 2)), WATER_EXCITATION_ENERGY)),
                    Ln(Sub(One, Powi(beta, 2)))),
                Powi(beta, 2)),
            delta),
        Mul(Two, Div(sc, WATER_ATOMIC_NUMBER)))
bracket_all_corrections(beta, delta, sc) ==
    Sub(Sub(Sub(Sub(Ln(Div(Mul(Mul(Two, electron_mass_eV), Powi(beta, 2)), WATER_EXCITATION_ENERGY)),
                    Ln(Sub(One, Powi(beta, 2)))),
                Powi(beta, 2)),
            delta),
        Mul(Two, Div(sc, WATER_ATOMIC_NUMBER)))

de_dx_all_corrections(beta, delta, sc) ==
    Mul(prefactor_all_corrections(beta), bracket_all_corrections(beta, delta, sc))


(***************************************************************************)
(* Text.  A string is a sequence of one-character strings.                 *)
(***************************************************************************)
Digits == <<"0", "1", "2", "3", "4", "5", "6", "7", "8", "9">>
IsDigit(c) == \E d \in 1..10 : Digits[d] = c
DigitVal(c) == (CHOOSE d \in 1..10 : Digits[d] = c) - 1
IsSpace(c) == c \in {" ", "\n", "\t", "\r"}

RECURSIVE TrimStart(_)
TrimStart(s) == IF s # <<>> /\ IsSpace(Head(s)) THEN TrimStart(Tail(s)) ELSE s

RECURSIVE TrimEnd(_)
TrimEnd(s) ==
    IF s # <<>> /\ IsSpace(s[Len(s)]) THEN TrimEnd(SubSeq(s, 1, Len(s) - 1)) ELSE s

\* str::trim
trim(s) == TrimEnd(TrimStart(s))

RECURSIVE DigitsValue(_)
DigitsValue(s) ==
    IF s = <<>> THEN 0
    ELSE 10 * DigitsValue(SubSeq(s, 1, Len(s) - 1)) + DigitVal(s[Len(s)])

\* str::parse::<f64> on decimal literals [+-]digits[.digits]: Ok(value) or Err.
\* (The inputs of the model hold no exponent and no "inf"/"nan" literal.)
parse_f64(s) ==
    LET signed == s # <<>> /\ s[1] \in {"+", "-"}
        body == IF signed THEN Tail(s) ELSE s
        dots == {d \in 1..Len(body) : body[d] = "."}
        wellformed ==
            /\ Cardinality(dots) <= 1
            /\ \A d \in 1..Len(body) : body[d] = "." \/ IsDigit(body[d])
            /\ \E d \in 1..Len(body) : IsDigit(body[d])
        frac == IF dots = {} THEN 0 ELSE Len(body) - (CHOOSE d \in dots : TRUE)
        n == DigitsValue(SelectSeq(body, IsDigit))
    IN  IF wellformed
        THEN [ok |-> TRUE, val |-> Round((IF s[1] = "-" THEN -1 ELSE 1) * n, -frac)]
        ELSE [ok |-> FALSE, val |-> NaN]

\* Result::unwrap_or
\* Result::unwrap_or_default in place of unwrap_or: 0.0 on Err
unwrap_or_default(r, default) == IF r.ok THEN r.val ELSE Zero
unwrap_or(r, default) == IF r.ok THEN r.val ELSE default

\* "{:.1}": the value in tenths, rounded to nearest
Fix1(v) == ToInt(Mul(v, FromInt(10)))

\* Default delta correction parameters
a_default == F(9116, -5)
x0_default == F(2400, -4)
x1_default == F(2800, -3)
c_default == F(3502, -3)
m_default == F(3477, -3)

\* answer.trim().eq_ignore_ascii_case("y")
\* an answer that only starts with y
is_yes_prefix(answer) == trim(answer) # <<>> /\ trim(answer)[1] \in {"y", "Y"}
is_yes(answer) == trim(answer) \in {<<"y">>, <<"Y">>}

\* The body of fn prompt after the line is read
prompt(input, default) ==
    LET trimmed == trim(input)
    IN  IF trimmed = <<>> THEN default ELSE unwrap_or(parse_f64(trimmed), default)

\* io::stdin().read_line after n lines were read: a read error, end of input
\* (Ok(0), nothing appended) or the next line with its newline.
ReadError == <<"EIO">>
read_line(in, n) ==
    IF n >= Len(in) THEN [err |-> FALSE, line |-> <<>>]
    ELSE IF in[n + 1] = ReadError THEN [err |-> TRUE, line |-> <<>>]
    ELSE [err |-> FALSE, line |-> in[n + 1]]

Variants == <<"no_corrections", "density_corrections", "layer_corrections", "all_corrections">>
VariantIndex(v) == CHOOSE n \in 1..4 : Variants[n] = v

(***************************************************************************)
(* One pass of each sweep loop: the values the loop body computes for      *)
(* sample i, with the ionization constant I and the correction parameters  *)
(* that are in the body's scope.                                           *)
(***************************************************************************)
\* let v = ...; body(v)
Bind(v, body(_)) == body(v)

\* the logarithm taken over the computed I (in eV) instead of the water constant
main_point_no_using_I(i, I) ==
    Bind(energy_eV_of(i), LAMBDA energy_eV :
    Bind(beta_of(energy_eV), LAMBDA beta :
      [energy_MeV |-> Div(energy_eV, F(1000, 3)), beta |-> beta,
       de_dx |-> Mul(prefactor_no_corrections(beta),
                     Sub(Sub(Ln(Div(Mul(Mul(Mul(Two, electron_mass_eV), beta), beta),
                                    Mul(I, F(1000, 3)))),
                             Ln(Sub(One, Mul(beta, beta)))),
                         Mul(beta, beta)))]))
main_point_no(i, I) ==
    Bind(energy_eV_of(i), LAMBDA energy_eV :
    Bind(beta_of(energy_eV), LAMBDA beta :
      [energy_MeV |-> Div(energy_eV, F(1000, 3)), beta |-> beta,
       de_dx |-> de_dx_no_corrections(beta)]))

main_point_density(i, I, a, x0, x1, c_param, m_param) ==
    Bind(energy_eV_of(i), LAMBDA energy_eV :
    Bind(beta_of(energy_eV), LAMBDA beta :
    Bind(bg_of(beta), LAMBDA bg :
    Bind(Log10(bg), LAMBDA x :
    Bind(main_delta(x, a, x0, x1, c_param, m_param), LAMBDA delta :
      [energy_MeV |-> Div(energy_eV, F(1000, 3)), beta |-> beta, bg |-> bg, x |-> x,
       delta |-> delta, de_dx |-> de_dx_density_corrections(beta, delta)])))))

main_point_layer(i, I) ==
    Bind(energy_eV_of(i), LAMBDA energy_eV :
    Bind(beta_of(energy_eV), LAMBDA beta :
    Bind(bg_of(beta), LAMBDA bg :
    Bind(sc_of(bg, I), LAMBDA sc :
      [energy_MeV |-> Div(energy_eV, F(1000, 3)), beta |-> beta, bg |-> bg, sc |-> sc,
       de_dx |-> de_dx_layer_corrections(beta, sc)]))))

main_point_all(i, I, a, x0, x1, c_param, m_param) ==
    Bind(energy_eV_of(i), LAMBDA energy_eV :
    Bind(beta_of(energy_eV), LAMBDA beta :
    Bind(bg_of(beta), LAMBDA bg :
    Bind(Log10(bg), LAMBDA x :
    Bind(main_delta(x, a, x0, x1, c_param, m_param), LAMBDA delta :
    Bind(sc_of(bg, I), LAMBDA sc :
      [energy_MeV |-> Div(energy_eV, F(1000, 3)), beta |-> beta, bg |-> bg, x |-> x,
       delta |-> delta, sc |-> sc,
       de_dx |-> de_dx_all_corrections(beta, delta, sc)]))))))

bb_point_no(i, I) ==
    Bind(energy_eV_of(i), LAMBDA energy_eV :
    Bind(beta_of(energy_eV), LAMBDA beta :
      [energy_MeV |-> Div(energy_eV, F(1000, 3)), beta |-> beta,
       de_dx |-> de_dx_no_corrections(beta)]))

bb_point_density(i, a, x0, x1, c_param, m_param) ==
    Bind(energy_eV_of(i), LAMBDA energy_eV :
    Bind(beta_of(energy_eV), LAMBDA beta :
    Bind(bg_of(beta), LAMBDA bg :
    Bind(Log10(bg), LAMBDA x :
    Bind(bb_delta(x, a, x0, x1, c_param, m_param), LAMBDA delta :
      [energy_MeV |-> Div(energy_eV, F(1000, 3)), beta |-> beta, bg |-> bg, x |-> x,
       delta |-> delta, de_dx |-> de_dx_density_corrections(beta, delta)])))))

bb_point_layer(i, I) ==
    Bind(energy_eV_of(i), LAMBDA energy_eV :
    Bind(beta_of(energy_eV), LAMBDA beta :
    Bind(bg_of(beta), LAMBDA bg :
    Bind(sc_of(bg, I), LAMBDA sc :
      [energy_MeV |-> Div(energy_eV, F(1000, 3)), beta |-> beta, bg |-> bg, sc |-> sc,
       de_dx |-> de_dx_layer_corrections(beta, sc)]))))

bb_point_all(i, I, a, x0, x1, c_param, m_param) ==
    Bind(energy_eV_of(i), LAMBDA energy_eV :
    Bind(beta_of(energy_eV), LAMBDA beta :
    Bind(bg_of(beta), LAMBDA bg :
    Bind(Log10(bg), LAMBDA x :
    Bind(bb_delta(x, a, x0, x1, c_param, m_param), LAMBDA delta :
    Bind(sc_of(bg, I), LAMBDA sc :
      [energy_MeV |-> Div(energy_eV, F(1000, 3)), beta |-> beta, bg |-> bg, x |-> x,
       delta |-> delta, sc |-> sc,
       de_dx |-> de_dx_all_corrections(beta, delta, sc)]))))))

(***************************************************************************)
(* State.  pc is the position in main (or in the caller of bb.rs), args    *)
(* the command line (args[1] is the program name), stdin the input lines   *)
(* and rd how many of them were read, files the content of every file      *)
(* created (a line is the pair of the energy in tenths and the stopping    *)
(* power), stdout the lines                                                *)
(* printed, plots the figures shown, loc the values of the last pass of    *)
(* the sweep loop, fault the I/O operation that failed.                    *)
(***************************************************************************)
VARIABLES pc, args, stdin, rd, a, x0, x1, c_param, m_param, I, n_points,
          energies, stopping_powers, file, files, stdout, plots,
          variant, i, k, loc, fault, calls, variables

vars == <<pc, args, stdin, rd, a, x0, x1, c_param, m_param, I, n_points,
          energies, stopping_powers, file, files, stdout, plots,
          variant, i, k, loc, fault, calls, variables>>

params == <<a, x0, x1, c_param, m_param>>
buffers == <<energies, stopping_powers>>

MAIN_N_POINTS == 1000

\* an Err that is dropped: the failure is recorded and the program goes on
expect_ignored(what) == fault' = what /\ UNCHANGED pc
\* .expect(..) on an Err: the thread panics and the process ends
expect(what) == pc' = "panic" /\ fault' = what

\* File::create: the file exists and is empty
Created(path) == [f \in DOMAIN files \cup {path} |-> IF f = path THEN <<>> ELSE files[f]]

\* writeln!(file, "{:.1}\t{:e}", energy_MeV, de_dx)
Line(p) == <<Fix1(p.energy_MeV), p.de_dx>>

\* one file shared by the four sweeps
MainPath_shared(v) == "fstopping.txt"
MainPath(v) ==
    CASE v = "no_corrections" -> "fstopping_no_corrections.txt"
      [] v = "density_corrections" -> "fstopping_density_corrections.txt"
      [] v = "layer_corrections" -> "fstopping_layer_corrections.txt"
      [] v = "all_corrections" -> "fstopping_all_corrections.txt"

MainBanner(v) ==
    CASE v = "no_corrections" -> "Bethe-Bloch without corrections"
      [] v = "density_corrections" -> "Bethe-Bloch with Density Corrections"
      [] v = "layer_corrections" -> "Bethe-Bloch with Layer Correction"
      [] v = "all_corrections" -> "Bethe-Bloch with All Correction"

MainCaption(v) ==
    CASE v = "no_corrections" -> "Protones en Agua (Bethe-Bloch)"
      [] v = "density_corrections" -> "Protones en Agua (Bethe-Bloch) Correcion Densidad"
      [] v = "layer_corrections" -> "Protones en Agua (Bethe-Bloch) Correcion Capa"
      [] v = "all_corrections" -> "Protones en Agua (Bethe-Bloch) Correciones Densidad y Capa"

MainTitle(v) ==
    CASE v = "no_corrections" -> "Poder de Frenado en funcion de la energia SIN correcciones"
      [] v = "density_corrections" -> "Poder de Frenado en funcion de la energia con correccion de densidad"
      [] v = "layer_corrections" -> "Poder de Frenado en funcion de la energia con correccion de capa"
      [] v = "all_corrections" -> "Poder de Frenado en funcion de la energia con correcciones de densidad y capa"

PromptMessage(n) ==
    <<"Enter value for a", "Enter value for x0", "Enter value for x1",
      "Enter value for C", "Enter value for m">>[n]

Defaults == <<a_default, x0_default, x1_default, c_default, m_default>>

\* main.rs:41-47: the five parameters from args[1..5] (here args[2..6])
MainParseArgs ==
    /\ pc = "start"
    /\ Len(args) >= 6
    /\ a' = unwrap_or(parse_f64(args[2]), a_default)
    /\ x0' = unwrap_or(parse_f64(args[3]), x0_default)
    /\ x1' = unwrap_or(parse_f64(args[4]), x1_default)
    /\ c_param' = unwrap_or(parse_f64(args[5]), c_default)
    /\ m_param' = unwrap_or(parse_f64(args[6]), m_default)
    /\ pc' = "create"
    /\ UNCHANGED <<args, stdin, rd, I, n_points, buffers, file, files, stdout, plots,
                   variant, i, k, loc, fault, calls, variables>>

\* main.rs:48-62: fewer than five arguments: ask whether to read them from stdin
MainAsk ==
    /\ pc = "start"
    /\ Len(args) < 6
    /\ LET r == read_line(stdin, rd)
           asked == stdout \o <<"Delta correction parameters were not fully provided on the command line.",
                                "Would you like to input them via standard input? (y/n): ">>
       IN  /\ rd' = rd + 1
           /\ IF r.err
              THEN /\ expect("read") /\ stdout' = asked
                   /\ UNCHANGED k
              ELSE IF is_yes(r.line)
              THEN /\ pc' = "prompt" /\ k' = 1 /\ stdout' = asked
                   /\ UNCHANGED fault
              ELSE /\ pc' = "create"
                   /\ stdout' = Append(asked, "Using default delta correction parameters.")
                   /\ UNCHANGED <<k, fault>>
    /\ UNCHANGED <<args, stdin, params, I, n_points, buffers, file, files, plots,
                   variant, i, loc, calls, variables>>

\* main.rs:54-58 and fn prompt (251-261): the k-th parameter from its prompt
MainPrompt ==
    /\ pc = "prompt"
    /\ LET r == read_line(stdin, rd)
           v == prompt(r.line, Defaults[k])
       IN  /\ rd' = rd + 1
           /\ stdout' = Append(stdout, <<PromptMessage(k), "default", Defaults[k]>>)
           /\ IF r.err
              THEN /\ expect("read")
                   /\ UNCHANGED <<params, k>>
              ELSE /\ a' = IF k = 1 THEN v ELSE a
                   /\ x0' = IF k = 2 THEN v ELSE x0
                   /\ x1' = IF k = 3 THEN v ELSE x1
                   /\ c_param' = IF k = 4 THEN v ELSE c_param
                   /\ m_param' = IF k = 5 THEN v ELSE m_param
                   /\ k' = k + 1
                   /\ pc' = IF k = 5 THEN "create" ELSE "prompt"
                   /\ UNCHANGED fault
    /\ UNCHANGED <<args, stdin, I, n_points, buffers, file, files, plots, variant, i, loc,
                   calls, variables>>

\* main.rs:64-89: derived constants, the two vectors, the first file
MainCreate ==
    /\ pc = "create"
    /\ I' = IonizationConstant(WATER_ATOMIC_NUMBER)
    /\ energies' = <<>>
    /\ stopping_powers' = <<>>
    /\ variant' = "no_corrections"
    /\ \E ok \in BOOLEAN :
         IF ok
         THEN /\ files' = Created(MainPath("no_corrections"))
              /\ file' = MainPath("no_corrections")
              /\ stdout' = Append(stdout, MainBanner("no_corrections"))
              /\ n_points' = MAIN_N_POINTS
              /\ i' = 0
              /\ pc' = "loop"
              /\ UNCHANGED fault
         ELSE /\ expect("create")
              /\ UNCHANGED <<files, file, stdout, n_points, i>>
    /\ UNCHANGED <<args, stdin, rd, params, plots, k, loc, calls, variables>>

\* The end of one pass of a sweep loop (bb.rs:57-65, main.rs:105-113 and their
\* copies): push the point, write its line or panic, print it
Pass(p) ==
    /\ energies' = Append(energies, p.energy_MeV)
    /\ stopping_powers' = Append(stopping_powers, p.de_dx)
    /\ loc' = p
    /\ \E ok \in BOOLEAN :
         IF ok
         THEN /\ files' = [files EXCEPT ![file] = Append(@, Line(p))]
              /\ stdout' = Append(stdout, Line(p))
              /\ i' = i + 1
              /\ UNCHANGED <<pc, fault>>
         ELSE /\ expect("write")
              /\ UNCHANGED <<files, stdout, i>>
    /\ UNCHANGED <<args, stdin, rd, params, I, n_points, file, plots, variant, k, calls, variables>>

\* main.rs:90-114
MainLoopNo ==
    /\ pc = "loop" /\ variant = "no_corrections" /\ i < n_points
    /\ Pass(main_point_no(i, I))

\* main.rs:128-157
MainLoopDensity ==
    /\ pc = "loop" /\ variant = "density_corrections" /\ i < n_points
    /\ Pass(main_point_density(i, I, a, x0, x1, c_param, m_param))

\* main.rs:171-195
MainLoopLayer ==
    /\ pc = "loop" /\ variant = "layer_corrections" /\ i < n_points
    /\ Pass(main_point_layer(i, I))

\* main.rs:209-243
MainLoopAll ==
    /\ pc = "loop" /\ variant = "all_corrections" /\ i < n_points
    /\ Pass(main_point_all(i, I, a, x0, x1, c_param, m_param))

\* fn plot of main.rs (270-296), called after each sweep: fg.show() or panic
MainPlot ==
    /\ pc = "loop" /\ i = n_points
    /\ \E ok \in BOOLEAN :
         IF ok
         THEN /\ plots' = Append(plots, [png |-> MainTitle(variant), caption |-> MainCaption(variant),
                                         energies |-> energies, stopping_powers |-> stopping_powers])
              /\ pc' = IF variant = "all_corrections" THEN "done" ELSE "next"
              /\ UNCHANGED fault
         ELSE /\ expect("plot")
              /\ UNCHANGED plots
    /\ UNCHANGED <<args, stdin, rd, params, I, n_points, buffers, file, files, stdout,
                   variant, i, k, loc, calls, variables>>

\* main.rs:121-126, 164-169, 202-207: clear the vectors, create the next file
MainNext ==
    /\ pc = "next"
    /\ energies' = <<>>
    /\ stopping_powers' = <<>>
    /\ LET next == Variants[VariantIndex(variant) + 1]
       IN  \E ok \in BOOLEAN :
             IF ok
             THEN /\ files' = Created(MainPath(next))
                  /\ file' = MainPath(next)
                  /\ stdout' = Append(stdout, MainBanner(next))
                  /\ variant' = next
                  /\ i' = 0
                  /\ pc' = "loop"
                  /\ UNCHANGED fault
             ELSE /\ expect("create")
                  /\ UNCHANGED <<files, file, stdout, variant, i>>
    /\ UNCHANGED <<args, stdin, rd, params, I, n_points, plots, k, loc, calls, variables>>

(***************************************************************************)
(* bb.rs and plot.rs, called by a caller that owns n_points, the two       *)
(* vectors and the HashMap variables.                                      *)
(***************************************************************************)
MaxPoints == 5
MaxCalls == 2

BBPath(v) ==
    CASE v = "no_corrections" -> "output/fstopping_no_corrections.txt"
      [] v = "density_corrections" -> "output/fstopping_density_corrections.txt"
      [] v = "layer_corrections" -> "output/fstopping_layer_corrections.txt"
      [] v = "all_corrections" -> "output/fstopping_all_corrections.txt"

BBBanner(v) ==
    CASE v = "no_corrections" -> "Bethe-Bloch without corrections"
      [] v = "density_corrections" -> "Bethe-Bloch with Density Corrections"
      [] v = "layer_corrections" -> "Bethe-Bloch with Layer Correction"
      [] v = "all_corrections" -> "Bethe-Bloch with all corrections"

ParamKeys == {"a", "x0", "x1", "m_param", "c_param"}

\* File::create(..).expect(..) and the banner, then the loop from i = 0
BBOpen(v) ==
    \E ok \in BOOLEAN :
      IF ok
      THEN /\ files' = Created(BBPath(v))
           /\ file' = BBPath(v)
           /\ stdout' = Append(stdout, BBBanner(v))
           /\ i' = 0
           /\ pc' = "bb_loop"
           /\ UNCHANGED fault
      ELSE /\ expect("create")
           /\ UNCHANGED <<files, file, stdout, i>>

\* variables.get(..).copied().unwrap() for the five keys
BBReadVariables ==
    /\ a' = variables["a"]
    /\ x0' = variables["x0"]
    /\ x1' = variables["x1"]
    /\ m_param' = variables["m_param"]
    /\ c_param' = variables["c_param"]

BBUnwrapPanics ==
    /\ pc' = "panic" /\ fault' = "unwrap"
    /\ UNCHANGED <<params, I, files, file, stdout, i>>

\* bb.rs:19-40
BBEnterNo ==
    /\ pc = "caller" /\ calls < MaxCalls
    /\ calls' = calls + 1
    /\ variant' = "no_corrections"
    /\ I' = IonizationConstant(WATER_ATOMIC_NUMBER)
    /\ BBOpen("no_corrections")
    /\ UNCHANGED <<args, stdin, rd, params, n_points, buffers, plots, k, loc, variables>>

\* bb.rs:69-87
BBEnterDensity ==
    /\ pc = "caller" /\ calls < MaxCalls
    /\ calls' = calls + 1
    /\ variant' = "density_corrections"
    /\ IF ParamKeys \subseteq DOMAIN variables
       THEN BBReadVariables /\ BBOpen("density_corrections") /\ UNCHANGED I
       ELSE BBUnwrapPanics
    /\ UNCHANGED <<args, stdin, rd, n_points, buffers, plots, k, loc, variables>>

\* bb.rs:121-141
BBEnterLayer ==
    /\ pc = "caller" /\ calls < MaxCalls
    /\ calls' = calls + 1
    /\ variant' = "layer_corrections"
    /\ I' = IonizationConstant(WATER_ATOMIC_NUMBER)
    /\ BBOpen("layer_corrections")
    /\ UNCHANGED <<args, stdin, rd, params, n_points, buffers, plots, k, loc, variables>>

\* bb.rs:170-197
BBEnterAll ==
    /\ pc = "caller" /\ calls < MaxCalls
    /\ calls' = calls + 1
    /\ variant' = "all_corrections"
    /\ IF ParamKeys \subseteq DOMAIN variables
       THEN /\ BBReadVariables
            /\ I' = IonizationConstant(WATER_ATOMIC_NUMBER)
            /\ BBOpen("all_corrections")
       ELSE BBUnwrapPanics
    /\ UNCHANGED <<args, stdin, rd, n_points, buffers, plots, k, loc, variables>>

\* bb.rs:42-66
BBLoopNo ==
    /\ pc = "bb_loop" /\ variant = "no_corrections" /\ i < n_points
    /\ Pass(bb_point_no(i, I))

\* bb.rs:89-118
BBLoopDensity ==
    /\ pc = "bb_loop" /\ variant = "density_corrections" /\ i < n_points
    /\ Pass(bb_point_density(i, a, x0, x1, c_param, m_param))

\* bb.rs:143-167
BBLoopLayer ==
    /\ pc = "bb_loop" /\ variant = "layer_corrections" /\ i < n_points
    /\ Pass(bb_point_layer(i, I))

\* bb.rs:199-233
BBLoopAll ==
    /\ pc = "bb_loop" /\ variant = "all_corrections" /\ i < n_points
    /\ Pass(bb_point_all(i, I, a, x0, x1, c_param, m_param))

\* the loop is over: the function returns and its file is closed
BBReturn ==
    /\ pc = "bb_loop" /\ i = n_points
    /\ pc' = "caller"
    /\ file' = ""
    /\ UNCHANGED <<args, stdin, rd, params, I, n_points, buffers, files, stdout, plots,
                   variant, i, k, loc, fault, calls, variables>>

\* plot.rs:5-31, called with the two vectors after a sweep
LibPlot ==
    /\ pc = "caller" /\ Len(plots) < calls
    /\ \E ok \in BOOLEAN :
         IF ok
         THEN /\ plots' = Append(plots, [png |-> <<"./output/", MainTitle(variant)>>,
                                         caption |-> MainCaption(variant),
                                         energies |-> energies,
                                         stopping_powers |-> stopping_powers])
              /\ UNCHANGED <<pc, fault>>
         ELSE /\ expect("plot")
              /\ UNCHANGED plots
    /\ UNCHANGED <<args, stdin, rd, params, I, n_points, buffers, file, files, stdout,
                   variant, i, k, loc, calls, variables>>

(***************************************************************************)
(* Inputs.                                                                 *)
(***************************************************************************)
ProgName == <<"b", "b">>
Newline(s) == Append(s, "\n")

\* The runs of main that are swept in full
MainRuns ==
    { [args |-> <<ProgName, <<"0", ".", "1">>, <<"-", "0", ".", "5">>, <<"0", ".", "5">>,
                  <<"3", ".", "5">>, <<"3">>>>,
       stdin |-> <<>>],
      [args |-> <<ProgName>>,
       stdin |-> <<Newline(<<"y">>), Newline(<<>>), Newline(<<"0", ".", "3">>), Newline(<<"1">>),
                   Newline(<<"a", "b", "c">>), Newline(<<" ", "2", " ">>)>>],
      [args |-> <<ProgName>>, stdin |-> <<Newline(<<"y">>), ReadError>>] }

\* The HashMaps a caller of bb.rs passes: the defaults, thresholds below and
\* between the sweep's first samples, x0 above x1, and a map with a key missing
VariablesSet ==
    { [a |-> a_default, x0 |-> x0_default, x1 |-> x1_default,
       c_param |-> c_default, m_param |-> m_default],
      [a |-> F(1000, -4), x0 |-> F(-9000, -4), x1 |-> F(-7000, -4),
       c_param |-> F(3500, -3), m_param |-> F(3000, -3)],
      [a |-> F(1000, -4), x0 |-> F(-7500, -4), x1 |-> F(1000, -3),
       c_param |-> F(-1500, -3), m_param |-> F(2500, -3)],
      [a |-> F(1000, -4), x0 |-> F(-6000, -4), x1 |-> F(-8000, -4),
       c_param |-> F(3500, -3), m_param |-> F(3000, -3)],
      [a |-> a_default, x0 |-> x0_default, x1 |-> x1_default, m_param |-> m_default] }

Unset == NaN

InitWith(runs) ==
    /\ \E r \in runs : args = r.args /\ stdin = r.stdin
    /\ rd = 0
    /\ pc = "start"
    /\ a = a_default /\ x0 = x0_default /\ x1 = x1_default
    /\ c_param = c_default /\ m_param = m_default
    /\ I = Unset /\ n_points = 0
    /\ energies = <<>> /\ stopping_powers = <<>>
    /\ file = "" /\ files = <<>> /\ stdout = <<>> /\ plots = <<>>
    /\ variant = "" /\ i = 0 /\ k = 0 /\ loc = <<>> /\ fault = "none" /\ calls = 0
    /\ variables = <<>>

\* main.rs, from process start
Init == InitWith(MainRuns)

Next ==
    \/ MainParseArgs
    \/ MainAsk
    \/ MainPrompt
    \/ MainCreate
    \/ MainLoopNo
    \/ MainLoopDensity
    \/ MainLoopLayer
    \/ MainLoopAll
    \/ MainPlot
    \/ MainNext

Spec == Init /\ [][Next]_vars

\* bb.rs and plot.rs: a caller with empty vectors, its n_points (none, one or
\* MaxPoints samples) and its HashMap
InitLib ==
    /\ pc = "caller"
    /\ n_points \in {0, 1, MaxPoints}
    /\ variables \in VariablesSet
    /\ args = <<>> /\ stdin = <<>> /\ rd = 0
    /\ a = Unset /\ x0 = Unset /\ x1 = Unset /\ c_param = Unset /\ m_param = Unset
    /\ I = Unset
    /\ energies = <<>> /\ stopping_powers = <<>>
    /\ file = "" /\ files = <<>> /\ stdout = <<>> /\ plots = <<>>
    /\ variant = "" /\ i = 0 /\ k = 0 /\ loc = <<>> /\ fault = "none" /\ calls = 0

NextLib ==
    \/ BBEnterNo
    \/ BBEnterDensity
    \/ BBEnterLayer
    \/ BBEnterAll
    \/ BBLoopNo
    \/ BBLoopDensity
    \/ BBLoopLayer
    \/ BBLoopAll
    \/ BBReturn
    \/ LibPlot

SpecLib == InitLib /\ [][NextLib]_vars

(***************************************************************************)
(* Parameter resolution alone (main.rs:41-62), over every combination of   *)
(* well-formed and malformed arguments and answers.                        *)
(***************************************************************************)
\* Command-line tokens with the value a well-formed one denotes
Tokens ==
    { [text |-> <<"0", ".", "1">>, num |-> TRUE, val |-> F(1000, -4)],
      [text |-> <<"-", "0", ".", "5">>, num |-> TRUE, val |-> F(-5000, -4)],
      [text |-> <<"a", "b", "c">>, num |-> FALSE, val |-> NaN],
      [text |-> <<>>, num |-> FALSE, val |-> NaN],
      [text |-> <<" ", "3">>, num |-> FALSE, val |-> NaN] }

\* Input lines with the value their trimmed text denotes
Lines ==
    { [text |-> Newline(<<"0", ".", "3">>), num |-> TRUE, val |-> F(3000, -4)],
      [text |-> Newline(<<" ", "2", " ">>), num |-> TRUE, val |-> F(2000, -3)],
      [text |-> Newline(<<>>), num |-> FALSE, val |-> NaN],
      [text |-> Newline(<<"1", ".", "2", ".", "3">>), num |-> FALSE, val |-> NaN] }

\* Answers to the y/n question, with whether they mean yes
Answers ==
    { [text |-> Newline(<<"y">>), yes |-> TRUE],
      [text |-> Newline(<<" ", "Y", " ">>), yes |-> TRUE],
      [text |-> Newline(<<"n">>), yes |-> FALSE],
      [text |-> Newline(<<"y", "e", "s">>), yes |-> FALSE],
      [text |-> Newline(<<>>), yes |-> FALSE] }

ArgRuns ==
    { [args |-> <<ProgName, t1.text, t2.text, t3.text, t4.text, t5.text>>, stdin |-> <<>>] :
        t1 \in Tokens, t2 \in Tokens, t3 \in Tokens, t4 \in Tokens, t5 \in Tokens }

YesRuns ==
    { [args |-> <<ProgName>>,
       stdin |-> <<Newline(<<"y">>), l1.text, l2.text, l3.text, l4.text, l5.text>>] :
        l1 \in Lines, l2 \in Lines, l3 \in Lines, l4 \in Lines, l5 \in Lines }

\* Too few arguments, with every answer, an input that ends early and a read
\* error at the question or at a prompt; and one argument too many
ShortRuns ==
    { [args |-> ar, stdin |-> <<an.text>> \o rest] :
        ar \in {<<ProgName>>, <<ProgName, <<"0", ".", "1">>>>,
                <<ProgName, <<"0", ".", "1">>, <<"0", ".", "1">>, <<"0", ".", "1">>,
                  <<"0", ".", "1">>>>},
        an \in Answers,
        rest \in {<<>>, <<Newline(<<"0", ".", "3">>), Newline(<<" ", "2", " ">>)>>,
                  <<Newline(<<"0", ".", "3">>), ReadError>>} }
    \cup { [args |-> <<ProgName>>, stdin |-> <<>>],
           [args |-> <<ProgName>>, stdin |-> <<ReadError>>],
           [args |-> <<ProgName, <<"0", ".", "1">>, <<"-", "0", ".", "5">>, <<"0", ".", "1">>,
                       <<"a", "b", "c">>, <<"0", ".", "1">>, <<"a", "b", "c">>>>,
            stdin |-> <<Newline(<<"y">>)>>] }

ParamRuns == ArgRuns \cup YesRuns \cup ShortRuns

InitParams == InitWith(ParamRuns)

NextParams ==
    \/ MainParseArgs
    \/ MainAsk
    \/ MainPrompt

SpecParams == InitParams /\ [][NextParams]_vars

(***************************************************************************)
(* Properties of parameter resolution.                                     *)
(***************************************************************************)
\* The documented defaults of a, x0, x1, c_param, m_param (to four digits)
DocumentedDefaults == <<F(9116, -5), F(2400, -4), F(2800, -3), F(3502, -3), F(3477, -3)>>

Field(n) == <<a, x0, x1, c_param, m_param>>[n]

\* What positional argument n denotes: its value, or the field's default
ArgValue(n) ==
    LET t == CHOOSE t \in Tokens : t.text = args[n + 1]
    IN  IF t.num THEN t.val ELSE DocumentedDefaults[n]

\* What the line read at prompt n denotes; a prompt at end of input reads nothing
LineValue(n) ==
    IF n + 1 > Len(stdin) THEN DocumentedDefaults[n]
    ELSE LET t == CHOOSE t \in Lines : t.text = stdin[n + 1]
         IN  IF t.num THEN t.val ELSE DocumentedDefaults[n]

\* Whether the first input line answers yes; no line at all is not a yes
AnsweredYes ==
    /\ Len(stdin) >= 1
    /\ stdin[1] # ReadError
    /\ (CHOOSE t \in Answers : t.text = stdin[1]).yes

Question ==
    <<"Delta correction parameters were not fully provided on the command line.",
      "Would you like to input them via standard input? (y/n): ">>

NamedPrompts ==
    [n \in 1..5 |->
       <<<<"Enter value for a", "Enter value for x0", "Enter value for x1",
           "Enter value for C", "Enter value for m">>[n], "default", DocumentedDefaults[n]>>]

\* C8: a parse failure is not fatal and is per field.  With five positional
\* arguments every field holds the value of its own argument when that is
\* well-formed and its documented default when it is malformed or empty; at
\* the prompts every field already asked holds the value of its own line or
\* its default, the others their defaults; and the only fatal outcome of
\* parameter resolution is a failed read of stdin, never a failed parse.
C8_ParseFailureIsPerFieldDefault ==
    /\ (Len(args) >= 6 /\ pc = "create") =>
          \A n \in 1..5 : Field(n) = ArgValue(n)
    /\ Len(args) < 6 =>
          \A n \in 1..5 : Field(n) = IF n < k THEN LineValue(n) ELSE DocumentedDefaults[n]
    /\ pc = "panic" => (fault = "read" /\ rd >= 1 /\ stdin[rd] = ReadError)

\* a malformed first and an empty fourth argument beside two parsed ones
C8_Witness ==
    /\ pc = "create" /\ Len(args) >= 6
    /\ args[2] = <<"a", "b", "c">> /\ args[3] = <<"-", "0", ".", "5">>
    /\ args[5] = <<>> /\ args[6] = <<"0", ".", "1">>
    /\ a = F(9116, -5) /\ x0 = F(-5000, -4) /\ c_param = F(3502, -3) /\ m_param = F(1000, -4)

\* C9 as stated: the parameters come from the arguments when five well-formed
\* ones are supplied, and otherwise (arguments absent or unparsable) all
\* five named prompts are shown.
C9_PromptsWhenAbsentOrUnparsable ==
    pc = "create" =>
      IF Len(args) >= 6 /\ \A n \in 1..5 : (CHOOSE t \in Tokens : t.text = args[n + 1]).num
      THEN stdout = <<>> /\ rd = 0
      ELSE Len(stdout) = 7 /\ SubSeq(stdout, 3, 7) = NamedPrompts

\* C9, amended: with five or more arguments nothing is asked and nothing is
\* read, well-formed or not; with fewer the program first asks whether to
\* read the parameters from stdin, shows the five named prompts with their
\* defaults in the order a, x0, x1, C, m only after the answer y, and after
\* any other answer announces the defaults and uses them.
C9_ArgumentsElseAskThenPrompt ==
    /\ pc = "create" =>
          IF Len(args) >= 6 THEN stdout = <<>> /\ rd = 0
          ELSE IF AnsweredYes
          THEN stdout = Question \o NamedPrompts /\ rd = 6
          ELSE /\ stdout = Append(Question, "Using default delta correction parameters.")
               /\ rd = 1
               /\ <<a, x0, x1, c_param, m_param>> = DocumentedDefaults
    /\ pc = "prompt" =>
          /\ Len(args) < 6 /\ AnsweredYes
          /\ stdout = Question \o SubSeq(NamedPrompts, 1, k - 1)
          /\ rd = k

\* the answer "yes" is not y: the defaults are announced and no prompt is shown
C9_Witness ==
    /\ pc = "create" /\ Len(args) = 2
    /\ stdin[1] = Newline(<<"y", "e", "s">>) /\ Len(stdin) = 3
    /\ rd = 1 /\ Len(stdout) = 3

(***************************************************************************)
(* Properties of the sweeps of main.rs.                                    *)
(***************************************************************************)
\* C1: position j (from 1) of energies holds j*10 MeV as soon as it is
\* pushed; a finished sweep holds n_points = 1000 strictly increasing
\* energies from 10.0 to 10000.0; and the four curves handed to the plots
\* have the same energies.
C1_EnergyGrid ==
    /\ energies # <<>> => energies[Len(energies)] = FromInt(10 * Len(energies))
    /\ (pc = "loop" /\ i = n_points) =>
          /\ n_points = 1000 /\ Len(energies) = n_points
          /\ \A j \in 1..Len(energies) : energies[j] = FromInt(10 * j)
          /\ \A j \in 1..(Len(energies) - 1) : Lt(energies[j], energies[j + 1])
          /\ energies[1] = F(1000, -2) /\ energies[1000] = F(1000, 1)
    /\ pc \in {"next", "done"} =>
          \A j \in 1..Len(plots) : plots[j].energies = plots[1].energies

\* the first curve, 10.0 to 10000.0, is plotted and the second sweep starts
\* on the same grid
C1_Witness ==
    /\ pc = "loop" /\ variant = "density_corrections" /\ i = 2
    /\ Len(plots) = 1 /\ Len(plots[1].energies) = 1000
    /\ plots[1].energies[1] = FromInt(10) /\ plots[1].energies[1000] = FromInt(10000)
    /\ energies = SubSeq(plots[1].energies, 1, 2)

\* C4: where the density correction is not zero (x at or above a threshold)
\* c_param enters it with a plus sign: delta lies above the same delta
\* taken with c_param = 0 when c_param is positive, below it when negative.
C4_CParamIsAdded ==
    (/\ pc = "loop" /\ i > 0
     /\ variant \in {"density_corrections", "all_corrections"}
     /\ (Ge(loc.x, x1) \/ Le(x0, loc.x))) =>
       LET without == main_delta(loc.x, a, x0, x1, Zero, m_param)
       IN  /\ Gt(c_param, Zero) => Gt(loc.delta, without)
           /\ Lt(c_param, Zero) => Lt(loc.delta, without)

\* Values of I other than the one main computes
OtherI == {IonizationConstant(FromInt(13)), Mul(Two, IonizationConstant(WATER_ATOMIC_NUMBER))}

C10_IOFailureAborts ==
    /\ fault # "none" => pc = "panic"
    /\ pc = "panic" => ~ENABLED Next
    /\ (pc = "panic" /\ fault = "write") =>
          Len(files[file]) = i /\ Len(stopping_powers) = i + 1
    /\ (pc = "panic" /\ fault \in {"write", "plot"}) =>
          /\ DOMAIN files = {MainPath(Variants[n]) : n \in 1..VariantIndex(variant)}
          /\ Len(plots) = VariantIndex(variant) - 1
    /\ (pc = "panic" /\ fault = "create") =>
          Len(plots) = Cardinality(DOMAIN files)

\* the third line of the first sweep cannot be written: two lines are in the
\* file, the third point is computed and nothing else exists
C10_Witness ==
    /\ pc = "panic" /\ fault = "write"
    /\ variant = "no_corrections" /\ i = 2
    /\ Len(files[file]) = 2 /\ Len(energies) = 3
    /\ plots = <<>>

(***************************************************************************)
(* Properties of the sweeps of bb.rs.                                      *)
(***************************************************************************)
\* C2: the curve a sweep hands back to its caller has exactly n_points
\* points, all of that sweep (position j holds j*10 MeV), in increasing
\* energy, whatever sweeps ran before on the same vectors.
C2_CurveHoldsOnlyItsSweep ==
    (pc = "caller" /\ calls > 0) =>
      /\ Len(energies) = n_points /\ Len(stopping_powers) = n_points
      /\ \A j \in 1..Len(energies) : energies[j] = FromInt(10 * j)
      /\ \A j \in 1..(Len(energies) - 1) : Lt(energies[j], energies[j + 1])

\* C3: no step of a sweep, from its entry to its return, creates or writes
\* a file or prints.
C3_SweepDoesNoIO ==
    [][(pc = "bb_loop" \/ pc' = "bb_loop") => (files' = files /\ stdout' = stdout)]_vars

\* C5: in both non-zero branches the density correction is
\* 2*ln(10)*x + c_param, plus a*(x1-x)^m_param between the thresholds.
C5_CoefficientIsTwoLn10 ==
    (/\ pc = "bb_loop" /\ i > 0
     /\ variant \in {"density_corrections", "all_corrections"}) =>
       IF Ge(loc.x, x1)
       THEN loc.delta = Add(Mul(Mul(Two, Ln(FromInt(10))), loc.x), c_param)
       ELSE IF Le(x0, loc.x)
       THEN loc.delta = Add(Add(Mul(Mul(Two, Ln(FromInt(10))), loc.x), c_param),
                            Mul(a, Powf(Sub(x1, loc.x), m_param)))
       ELSE loc.delta = Zero

\* Sample values of a correction term: of the size of the sweep's own shell
\* term, and large enough to show in the bracket
Terms == {F(6000, -22), F(1500, -3), F(-2500, -4)}

\* u and v differ by at most three units in the last of the four digits of w
Magnitude(u) == IF u.m < 0 THEN Neg(u) ELSE u
Near(u, v, w) == Le(Magnitude(Sub(u, v)), Mul(F(3000, -6), Magnitude(w)))

\* C6: at the velocity of every point, the bracket of each variant with its
\* correction terms at zero is the no-correction bracket (up to the
\* rounding of beta*beta against beta.powi(2)); for the point's own and for
\* sample terms the density bracket is that bracket minus delta, the layer
\* bracket is it minus 2*sc/Z, the all-corrections bracket is it minus
\* delta minus 2*sc/Z; all four prefactors are const_general*z^2*n_e/beta^2;
\* and the stopping power stored is that prefactor times the variant's
\* bracket.
C6_EachVariantSubtractsItsOwnTerms ==
    (pc = "bb_loop" /\ i > 0) =>
      LET base == bracket_no_corrections(loc.beta)
          pre == Div(Mul(Mul(const_general, Mul(Z_PROTON, Z_PROTON)), ELECTRON_PER_VOLUME_H20),
                     Mul(loc.beta, loc.beta))
          shell(s) == Mul(Two, Div(s, WATER_ATOMIC_NUMBER))
          density0 == bracket_density_corrections(loc.beta, Zero)
          layer0 == bracket_layer_corrections(loc.beta, Zero)
          all0 == bracket_all_corrections(loc.beta, Zero, Zero)
      IN  /\ prefactor_no_corrections(loc.beta) = pre
          /\ prefactor_density_corrections(loc.beta) = pre
          /\ prefactor_layer_corrections(loc.beta) = pre
          /\ prefactor_all_corrections(loc.beta) = pre
          /\ Near(density0, base, base) /\ Near(layer0, base, base) /\ Near(all0, base, base)
          /\ all0 = density0 /\ all0 = layer0
          /\ \A d \in Terms \cup (IF "delta" \in DOMAIN loc THEN {loc.delta} ELSE {}) :
                /\ bracket_density_corrections(loc.beta, d) = Sub(density0, d)
                /\ \A s \in Terms \cup (IF "sc" \in DOMAIN loc THEN {loc.sc} ELSE {}) :
                      /\ bracket_layer_corrections(loc.beta, s) = Sub(layer0, shell(s))
                      /\ bracket_all_corrections(loc.beta, d, s) = Sub(Sub(all0, d), shell(s))
          /\ variant = "no_corrections" => loc.de_dx = Mul(pre, base)
          /\ variant = "density_corrections" => loc.de_dx = Mul(pre, Sub(density0, loc.delta))
          /\ variant = "layer_corrections" => loc.de_dx = Mul(pre, Sub(layer0, shell(loc.sc)))
          /\ variant = "all_corrections" =>
                loc.de_dx = Mul(pre, Sub(Sub(all0, loc.delta), shell(loc.sc)))
          /\ stopping_powers[Len(stopping_powers)] = loc.de_dx

\* an all-corrections point between the thresholds, with both terms present
C6_Witness ==
    /\ pc = "bb_loop" /\ i = 1 /\ variant = "all_corrections"
    /\ Le(x0, loc.x) /\ Lt(loc.x, x1)
    /\ Gt(loc.delta, Zero) /\ Gt(loc.sc, Zero)

(***************************************************************************)
(* The files of main.rs against the curves it plots.                       *)
(***************************************************************************)
\* The line the file sink owes to element n of a curve
LineOf(es, sps, n) == <<ToInt(Mul(es[n], FromInt(10))), sps[n]>>

\* C11: the four paths are distinct and the file being written is the
\* variant's; during a sweep the file holds one line per point written so
\* far and its last line carries the last point; when the sweep is complete
\* and when its curve has been handed to plot, the file has as many lines as
\* the curve has points and line n carries the energy (to one decimal) and
\* the stopping power of element n; and the files of the earlier variants
\* keep their lines.
C11_OneLinePerPointInOrder ==
    /\ \A v \in 1..4, w \in 1..4 : v # w => MainPath(Variants[v]) # MainPath(Variants[w])
    /\ pc = "loop" =>
          /\ file = MainPath(variant)
          /\ DOMAIN files = {MainPath(Variants[n]) : n \in 1..VariantIndex(variant)}
          /\ Len(files[file]) = i /\ Len(energies) = i /\ Len(stopping_powers) = i
          /\ i > 0 => files[file][i] = LineOf(energies, stopping_powers, i)
          /\ i = n_points =>
                \A n \in 1..Len(energies) : files[file][n] = LineOf(energies, stopping_powers, n)
    /\ pc \in {"next", "done"} =>
          /\ Len(plots) = VariantIndex(variant)
          /\ \A j \in 1..Len(plots) :
                Len(files[MainPath(Variants[j])]) = Len(plots[j].energies)
          /\ Len(plots[Len(plots)].energies) = n_points
          /\ Len(plots[Len(plots)].stopping_powers) = n_points
          /\ \A n \in 1..n_points :
                files[file][n] = LineOf(plots[Len(plots)].energies,
                                        plots[Len(plots)].stopping_powers, n)

\* the first curve is plotted and its file holds its 1000 lines, the last for 10000.0 MeV
C11_Witness ==
    /\ pc = "next" /\ Len(plots) = 1
    /\ Len(files["fstopping_no_corrections.txt"]) = 1000
    /\ files["fstopping_no_corrections.txt"][1000] = <<100000, plots[1].stopping_powers[1000]>>

(***************************************************************************)
(* The density correction alone (bb.rs:98-104, main.rs:137-143), applied   *)
(* to parameters and to x taken from grids that hold both thresholds, the  *)
(* points around them, thresholds in either order, exponents of either     *)
(* sign and zero, and the values f64 adds to the numbers.                  *)
(***************************************************************************)
Thresholds == {F(-5000, -4), Zero, F(2400, -4), F(5000, -4), F(2800, -3)}
XValues == Thresholds \cup {F(-1000, -3), F(1000, -4), F(3000, -4), One, F(3000, -3),
                            NaN, PosInf, NegInf}
AValues == {F(9116, -5), Zero, F(-1000, -4), PosInf}
CValues == {F(3502, -3), F(-1500, -3)}
MValues == {F(3477, -3), F(3000, -3), F(5000, -4), Zero, F(-1000, -3)}

InitDelta ==
    /\ pc = "delta"
    /\ a \in AValues /\ x0 \in Thresholds /\ x1 \in Thresholds \cup {PosInf}
    /\ c_param \in CValues /\ m_param \in MValues
    /\ args = <<>> /\ stdin = <<>> /\ rd = 0
    /\ I = Unset /\ n_points = 0
    /\ energies = <<>> /\ stopping_powers = <<>>
    /\ file = "" /\ files = <<>> /\ stdout = <<>> /\ plots = <<>>
    /\ variant = "" /\ i = 0 /\ k = 0 /\ loc = <<>> /\ fault = "none" /\ calls = 0
    /\ variables = <<>>

\* bb.rs:98-104 at one x
DeltaBB ==
    /\ pc = "delta"
    /\ \E x \in XValues :
         loc' = [of |-> "bb", x |-> x, delta |-> bb_delta(x, a, x0, x1, c_param, m_param)]
    /\ pc' = "delta_done"
    /\ UNCHANGED <<args, stdin, rd, params, I, n_points, buffers, file, files, stdout, plots,
                   variant, i, k, fault, calls, variables>>

\* main.rs:137-143 at one x
DeltaMain ==
    /\ pc = "delta"
    /\ \E x \in XValues :
         loc' = [of |-> "main", x |-> x, delta |-> main_delta(x, a, x0, x1, c_param, m_param)]
    /\ pc' = "delta_done"
    /\ UNCHANGED <<args, stdin, rd, params, I, n_points, buffers, file, files, stdout, plots,
                   variant, i, k, fault, calls, variables>>

NextDelta ==
    \/ DeltaBB
    \/ DeltaMain

SpecDelta == InitDelta /\ [][NextDelta]_vars

\* The value of the branch x >= x1 and of the branch x0 <= x at the x applied
TopAtX ==
    IF loc.of = "bb" THEN bb_delta_top(loc.x, c_param) ELSE main_delta_top(loc.x, c_param)
MiddleAtX ==
    IF loc.of = "bb" THEN bb_delta_middle(loc.x, a, x1, c_param, m_param)
    ELSE main_delta_middle(loc.x, a, x1, c_param, m_param)

\* C12 as stated: x >= x1 gives the top branch, x0 <= x < x1 the middle
\* branch, and every x < x0 gives exactly 0, whatever x0 and x1 are.
C12_BranchByThresholds ==
    pc = "delta_done" =>
      /\ Ge(loc.x, x1) => loc.delta = TopAtX
      /\ (Le(x0, loc.x) /\ Lt(loc.x, x1)) => loc.delta = MiddleAtX
      /\ Lt(loc.x, x0) => loc.delta = Zero

\* C12, amended: x >= x1 gives the top branch whatever x0 is (so also for
\* x1 <= x < x0 when the thresholds are in the opposite order), x0 <= x < x1
\* the middle branch, x below both thresholds exactly 0, and so does an x
\* that is not a number.
C12_TopFirstThenMiddleElseZero ==
    pc = "delta_done" =>
      /\ Ge(loc.x, x1) => loc.delta = TopAtX
      /\ (Le(x0, loc.x) /\ Lt(loc.x, x1)) => loc.delta = MiddleAtX
      /\ (Lt(loc.x, x0) /\ Lt(loc.x, x1)) => loc.delta = Zero
      /\ IsNaN(loc.x) => loc.delta = Zero

\* x == x1 with an exponent 0, where the two branches differ: the top one is used
C12_Witness ==
    /\ pc = "delta_done" /\ loc.of = "bb"
    /\ loc.x = x1 /\ Lt(x0, x1) /\ m_param = Zero /\ a = F(9116, -5)
    /\ loc.delta = TopAtX /\ loc.delta # MiddleAtX

\* The term a*(x1-x)^m_param of the middle branch at x == x1
ExtraTermAtX1 == Mul(a, Powf(Sub(x1, x1), m_param))

\* C13 as stated: whatever parameters the caller supplies, the middle-branch
\* formula at x == x1 equals the top-branch formula there, the extra term
\* a*(x1-x1)^m_param being 0.
C13_MiddleMeetsTopAtX1 ==
    /\ ExtraTermAtX1 = Zero
    /\ bb_delta_middle(x1, a, x1, c_param, m_param) = bb_delta_top(x1, c_param)
    /\ main_delta_middle(x1, a, x1, c_param, m_param) = main_delta_top(x1, c_param)

\* C13, amended: for a finite a, a finite x1 and an exponent m_param > 0 the
\* extra term at x == x1 is 0 and the middle-branch formula equals the
\* top-branch formula there, in bb.rs and in main.rs; for m_param = 0 the
\* term is a (0^0 is 1) and the middle formula is the top one plus a; for
\* m_param < 0 the term is infinite, or not a number when a is 0.  The
\* value computed at x == x1 is the top branch's in every case.
C13_MiddleMeetsTopForPositiveExponent ==
    /\ (IsFinite(a) /\ IsFinite(x1) /\ Gt(m_param, Zero)) =>
          /\ ExtraTermAtX1 = Zero
          /\ bb_delta_middle(x1, a, x1, c_param, m_param) = bb_delta_top(x1, c_param)
          /\ main_delta_middle(x1, a, x1, c_param, m_param) = main_delta_top(x1, c_param)
    /\ (IsFinite(a) /\ IsFinite(x1) /\ m_param = Zero) =>
          /\ ExtraTermAtX1 = a
          /\ bb_delta_middle(x1, a, x1, c_param, m_param) = Add(bb_delta_top(x1, c_param), a)
          /\ main_delta_middle(x1, a, x1, c_param, m_param) = Add(main_delta_top(x1, c_param), a)
    /\ (IsFinite(x1) /\ Lt(m_param, Zero)) => ~IsFinite(ExtraTermAtX1)
    /\ (pc = "delta_done" /\ loc.x = x1) => loc.delta = TopAtX

\* the correction applied at x == x1 with the default a and exponent: the
\* value is the top branch's and the middle formula gives the same
C13_Witness ==
    /\ pc = "delta_done" /\ loc.of = "main"
    /\ loc.x = x1 /\ x1 = F(2800, -3) /\ x0 = F(2400, -4)
    /\ a = F(9116, -5) /\ m_param = F(3477, -3)
    /\ loc.delta = MiddleAtX

====
